---- MODULE Spec2Model ----
(***************************************************************************)
(* Speaker identity resolution of src/server/speaker_service.py.          *)
(*                                                                         *)
(* Embeddings are real vectors in the source; here they are fixed-point   *)
(* vectors (SCALE = 1.0), and cosine_sim / average_embeddings are         *)
(* computed step by step as the source computes them, with integer        *)
(* division standing for floating-point rounding.  A similarity is an     *)
(* integer in thousandths (700 = 0.70).                                    *)
(***************************************************************************)
EXTENDS Integers, Sequences, FiniteSets, TLC

VARIABLES
    profiles,        \* in-memory dict name -> embedding, in insertion order
    disk,            \* PROFILES_DIR: one <name>.npy record per profile
    owner_enrolled,  \* auto-enrollment flag
    owner_samples,   \* embeddings collected before the owner is enrolled
    owner_enroll_samples, \* OWNER_ENROLL_SAMPLES as read from the environment
    unknown_counter, \* number used for the next Speaker_<n> id
    unknown_cache,   \* list of { id, embeddings, count }
    hist,            \* the most recent requests and their responses
    window,          \* how many requests hist retains
    alloc_log,       \* ids handed to new clusters since the process started,
                     \* with NoName marking each reset
    promotions,      \* per cache entry: times its average was auto-enrolled
    explicit,        \* names whose profile was last written by an explicit
                     \* operation or loaded at startup
    pending,         \* per client: the request it has sent and that the
                     \* server has not handled yet
    nops,            \* requests served so far
    nexplicit        \* of these, the requests other than an /identify
                     \* that carries an embedding

vars == <<profiles, disk, owner_enrolled, owner_samples, owner_enroll_samples,
          unknown_counter,
          unknown_cache, hist, window, alloc_log, promotions, explicit, pending,
          nops, nexplicit>>

(***************************************************************************)
(* Bounds of the model.                                                    *)
(***************************************************************************)
MaxOps == 4
MaxExplicit == 1
HistLen == 2
MaxOpsTrack == 6
HistLenTrack == 6
MaxOpsConc == 4
MaxOpsDrift == 12
MaxOpsConfig == 4
MaxOpsNames == 4
MaxEnrollSamples == 4
HistLenDrift == 1
NumClients == 2

(***************************************************************************)
(* Configuration (module level of speaker_service.py).                     *)
(***************************************************************************)
SCALE == 1000
SIMILARITY_THRESHOLD == 700
AUTO_ENROLL_THRESHOLD == 650
OWNER_NAME == "Pablo"
OWNER_ENROLL_SAMPLES == 3
UNKNOWN_ENROLL_SAMPLES == 3
RefineWindow == 10

(***************************************************************************)
(* Inputs.  Three unit embeddings a request may carry, the embedding of   *)
(* a profile left on disk by an earlier run, and Absent: the None that    *)
(* get_embedding returns for audio that is too short.                      *)
(***************************************************************************)
EmbA == <<936, 352>>
EmbB == <<352, 936>>
EmbX == <<995, 104>>
EmbO == <<0, -1000>>
Absent == <<>>
Embeddings == {EmbA, EmbB, EmbX}
EnrollEmbeddings == {EmbA, EmbB}
NoName == ""
UserNames == {OWNER_NAME, "Alice", "Speaker_1"}
Dim == Len(EmbA)
Clients == 1..NumClients
Idle == [op |-> "idle"]

(***************************************************************************)
(* Vector arithmetic.                                                      *)
(***************************************************************************)
Dot(a, b) == a[1] * b[1] + a[2] * b[2]

RECURSIVE SqrtBetween(_, _, _)
SqrtBetween(x, lo, hi) ==
    IF lo >= hi THEN lo
    ELSE LET mid == (lo + hi + 1) \div 2
         IN  IF mid * mid <= x THEN SqrtBetween(x, mid, hi)
             ELSE SqrtBetween(x, lo, mid - 1)

ISqrt(x) == SqrtBetween(x, 0, 4 * SCALE)

Norm(a) == ISqrt(Dot(a, a))

cosine_sim(a, b) == (Dot(a, b) * SCALE) \div (Norm(a) * Norm(b))

RECURSIVE SumCoord(_, _, _)
SumCoord(embs, i, k) ==
    IF k = 0 THEN 0 ELSE embs[k][i] + SumCoord(embs, i, k - 1)

average_embeddings(embs) ==
    IF Len(embs) = 1 THEN embs[1]
    ELSE LET avg == [i \in 1..Dim |-> SumCoord(embs, i, Len(embs)) \div Len(embs)]
             nrm == Norm(avg)
         IN  [i \in 1..Dim |-> (avg[i] * SCALE) \div nrm]

(***************************************************************************)
(* The profiles dict: a sequence of <<name, embedding>> entries in        *)
(* insertion order.                                                        *)
(***************************************************************************)
Names(P) == {P[i].name : i \in 1..Len(P)}

Has(P, name) == name \in Names(P)

Get(P, name) == (CHOOSE i \in 1..Len(P) : P[i].name = name)

Emb(P, name) == P[Get(P, name)].emb

Put(P, name, emb) ==
    IF Has(P, name)
    THEN [P EXCEPT ![Get(P, name)] = [name |-> name, emb |-> emb]]
    ELSE Append(P, [name |-> name, emb |-> emb])

Pop(P, name) ==
    LET k == Get(P, name)
    IN  SubSeq(P, 1, k - 1) \o SubSeq(P, k + 1, Len(P))

DiskPut(D, name, emb) ==
    [n \in DOMAIN D \cup {name} |-> IF n = name THEN emb ELSE D[n]]

DiskRemove(D, name) == [n \in DOMAIN D \ {name} |-> D[n]]

EmptyDisk == [n \in {} |-> <<>>]

save_profile(P, D, name, embedding) ==
    [profiles |-> Put(P, name, embedding), disk |-> DiskPut(D, name, embedding)]

(***************************************************************************)
(* identify_speaker: best similarity over the profiles in dict order; a   *)
(* later profile replaces the best one only when strictly more similar.   *)
(* NoName stands for None.                                                 *)
(***************************************************************************)
\* A faulty loop: it stops at the first profile at or above the threshold.
RECURSIVE FirstAbove(_, _, _, _)
FirstAbove(P, embedding, i, best) ==
    IF i > Len(P) THEN best
    ELSE IF cosine_sim(embedding, P[i].emb) >= SIMILARITY_THRESHOLD
    THEN [name |-> P[i].name, sim |-> cosine_sim(embedding, P[i].emb)]
    ELSE FirstAbove(P, embedding, i + 1, best)

RECURSIVE BestProfile(_, _, _, _)
BestProfile(P, embedding, i, best) ==
    IF i > Len(P) THEN best
    ELSE IF cosine_sim(embedding, P[i].emb) > best.sim
    THEN BestProfile(P, embedding, i + 1,
                     [name |-> P[i].name, sim |-> cosine_sim(embedding, P[i].emb)])
    ELSE BestProfile(P, embedding, i + 1, best)

\* A faulty threshold: the cluster threshold where the code has the profile one.
AboveThresholdLow(best) ==
    IF best.sim >= AUTO_ENROLL_THRESHOLD THEN best
    ELSE [name |-> NoName, sim |-> best.sim]

AboveThreshold(best) ==
    IF best.sim >= SIMILARITY_THRESHOLD THEN best
    ELSE [name |-> NoName, sim |-> best.sim]

identify_speaker(P, embedding) ==
    IF Len(P) = 0 THEN [name |-> NoName, sim |-> 0]
    ELSE AboveThreshold(BestProfile(P, embedding, 1, [name |-> NoName, sim |-> 0]))

(***************************************************************************)
(* try_auto_enroll_owner: ret is the returned flag, the other fields the  *)
(* globals after the call.                                                 *)
(***************************************************************************)
\* A faulty flag: recomputed from the presence of the owner profile.
BootRechecked(ret, P, D, enrolled, samples) ==
    [ret |-> ret, profiles |-> P, disk |-> D,
     owner_enrolled |-> enrolled /\ Has(P, OWNER_NAME), owner_samples |-> samples]

Boot(ret, P, D, enrolled, samples) ==
    [ret |-> ret, profiles |-> P, disk |-> D,
     owner_enrolled |-> enrolled, owner_samples |-> samples]

\* A faulty enrolment: the pending samples are replaced by their average.
OwnerSavedKeepingAverage(saved) ==
    Boot(TRUE, saved.profiles, saved.disk, TRUE, <<Emb(saved.profiles, OWNER_NAME)>>)

OwnerSaved(saved) == Boot(TRUE, saved.profiles, saved.disk, TRUE, <<>>)

\* A faulty count check: > where the code has >=.
OwnerSampleAddedLate(P, D, samples) ==
    IF Len(samples) > owner_enroll_samples
    THEN OwnerSaved(save_profile(P, D, OWNER_NAME, average_embeddings(samples)))
    ELSE Boot(TRUE, P, D, FALSE, samples)

OwnerSampleAdded(P, D, samples) ==
    IF Len(samples) >= owner_enroll_samples
    THEN OwnerSaved(save_profile(P, D, OWNER_NAME, average_embeddings(samples)))
    ELSE Boot(TRUE, P, D, FALSE, samples)

\* A faulty bootstrap: an inconsistent sample starts the collection afresh.
try_auto_enroll_ownerRestarting(P, D, enrolled, samples, embedding) ==
    IF enrolled THEN Boot(FALSE, P, D, enrolled, samples)
    ELSE IF Len(samples) = 0 THEN Boot(TRUE, P, D, enrolled, <<embedding>>)
    ELSE IF cosine_sim(embedding, average_embeddings(samples)) >= AUTO_ENROLL_THRESHOLD
    THEN OwnerSampleAdded(P, D, Append(samples, embedding))
    ELSE Boot(FALSE, P, D, enrolled, <<embedding>>)

try_auto_enroll_owner(P, D, enrolled, samples, embedding) ==
    IF enrolled THEN Boot(FALSE, P, D, enrolled, samples)
    ELSE IF Len(samples) = 0 THEN Boot(TRUE, P, D, enrolled, <<embedding>>)
    ELSE IF cosine_sim(embedding, average_embeddings(samples)) >= AUTO_ENROLL_THRESHOLD
    THEN OwnerSampleAdded(P, D, Append(samples, embedding))
    ELSE Boot(FALSE, P, D, enrolled, samples)

(***************************************************************************)
(* find_or_create_unknown.  hit is the index of the cache entry that      *)
(* matched (0: a new entry was created), promoted tells whether the       *)
(* auto-enroll branch ran.                                                 *)
(***************************************************************************)
SpeakerId(n) == "Speaker_" \o ToString(n)

LastN(s, n) == IF Len(s) <= n THEN s ELSE SubSeq(s, Len(s) - n + 1, Len(s))

\* A faulty match test: against the latest member instead of the average.
EntryMatchesLatest(entry, embedding) ==
    cosine_sim(embedding, entry.embeddings[Len(entry.embeddings)]) >= AUTO_ENROLL_THRESHOLD

EntryMatches(entry, embedding) ==
    cosine_sim(embedding, average_embeddings(entry.embeddings)) >= AUTO_ENROLL_THRESHOLD

\* A faulty search: the most similar matching entry instead of the first.
BestMatch(cache, embedding) ==
    IF \A i \in 1..Len(cache) : ~EntryMatches(cache[i], embedding) THEN 0
    ELSE CHOOSE i \in 1..Len(cache) :
            /\ EntryMatches(cache[i], embedding)
            /\ \A j \in 1..Len(cache) :
                  /\ cosine_sim(embedding, average_embeddings(cache[j].embeddings))
                        <= cosine_sim(embedding, average_embeddings(cache[i].embeddings))
                  /\ (j < i) =>
                        cosine_sim(embedding, average_embeddings(cache[j].embeddings))
                          < cosine_sim(embedding, average_embeddings(cache[i].embeddings))

FirstMatch(cache, embedding) ==
    IF \A i \in 1..Len(cache) : ~EntryMatches(cache[i], embedding) THEN 0
    ELSE CHOOSE i \in 1..Len(cache) :
            /\ EntryMatches(cache[i], embedding)
            /\ \A j \in 1..(i - 1) : ~EntryMatches(cache[j], embedding)

Found(uid, usim, hit, promoted, store, cache, counter) ==
    [uid |-> uid, usim |-> usim, hit |-> hit, promoted |-> promoted,
     profiles |-> store.profiles, disk |-> store.disk,
     unknown_cache |-> cache, unknown_counter |-> counter]

\* A faulty append: the entry's count is not incremented.
GrownUncounted(entry, embedding) ==
    [entry EXCEPT !.embeddings = Append(@, embedding)]

Grown(entry, embedding) ==
    [entry EXCEPT !.embeddings = Append(@, embedding), !.count = @ + 1]

Refined(P, D, entry) ==
    [profiles |-> IF Has(P, entry.id)
                  THEN Put(P, entry.id,
                           average_embeddings(LastN(entry.embeddings, RefineWindow)))
                  ELSE P,
     disk |-> D]

EntryMatched(P, D, cache, counter, k, sim) ==
    IF cache[k].count >= UNKNOWN_ENROLL_SAMPLES /\ ~Has(P, cache[k].id)
    THEN Found(cache[k].id, sim, k, TRUE,
               save_profile(P, D, cache[k].id, average_embeddings(cache[k].embeddings)),
               cache, counter)
    ELSE Found(cache[k].id, sim, k, FALSE, Refined(P, D, cache[k]), cache, counter)

NewUnknown(P, D, cache, counter, embedding, uid) ==
    Found(uid, 0, 0, FALSE, [profiles |-> P, disk |-> D],
          Append(cache, [id |-> uid, embeddings |-> <<embedding>>, count |-> 1]),
          counter)

\* A faulty allocation: the incremented counter is not stored.
MatchedOrNewStuck(P, D, cache, counter, embedding, k) ==
    IF k > 0
    THEN EntryMatched(P, D, [cache EXCEPT ![k] = Grown(cache[k], embedding)], counter, k,
                      cosine_sim(embedding, average_embeddings(cache[k].embeddings)))
    ELSE NewUnknown(P, D, cache, counter, embedding, SpeakerId(counter + 1))

MatchedOrNew(P, D, cache, counter, embedding, k) ==
    IF k > 0
    THEN EntryMatched(P, D, [cache EXCEPT ![k] = Grown(cache[k], embedding)], counter, k,
                      cosine_sim(embedding, average_embeddings(cache[k].embeddings)))
    ELSE NewUnknown(P, D, cache, counter + 1, embedding, SpeakerId(counter + 1))

find_or_create_unknown(P, D, cache, counter, embedding) ==
    MatchedOrNew(P, D, cache, counter, embedding, FirstMatch(cache, embedding))

(***************************************************************************)
(* Responses.  A key the handler leaves out of the JSON body reads as     *)
(* NoName / 0 / FALSE here.                                                *)
(***************************************************************************)
Resp(code, speaker, similarity, known, autoEnrolling, samples) ==
    [code |-> code, speaker |-> speaker, similarity |-> similarity,
     known |-> known, autoEnrolling |-> autoEnrolling, samples |-> samples]

Status(code) == Resp(code, NoName, 0, FALSE, FALSE, 0)

(***************************************************************************)
(* do_POST /identify.  path names the branch that answered.               *)
(***************************************************************************)
Outcome(resp, path, hit, promoted, P, D, enrolled, samples, cache, counter) ==
    [resp |-> resp, path |-> path, hit |-> hit, promoted |-> promoted,
     profiles |-> P, disk |-> D,
     owner_enrolled |-> enrolled, owner_samples |-> samples,
     unknown_cache |-> cache, unknown_counter |-> counter]

IdentifyStep3(boot, match, u) ==
    Outcome(Resp(200, u.uid, match.sim, FALSE, FALSE, 0),
            IF u.hit = 0 THEN "new" ELSE "joined", u.hit, u.promoted,
            u.profiles, u.disk, boot.owner_enrolled, boot.owner_samples,
            u.unknown_cache, u.unknown_counter)

\* A faulty step 2: the matched profile is refined with the new sample.
IdentifyStep2Refining(boot, match, cache, counter, embedding) ==
    IF match.name # NoName
    THEN Outcome(Resp(200, match.name, match.sim, TRUE, FALSE, 0), "profile", 0, FALSE,
                 Put(boot.profiles, match.name,
                     average_embeddings(<<Emb(boot.profiles, match.name), embedding>>)),
                 boot.disk, boot.owner_enrolled, boot.owner_samples,
                 cache, counter)
    ELSE IdentifyStep3(boot, match,
                       find_or_create_unknown(boot.profiles, boot.disk, cache, counter,
                                              embedding))

IdentifyStep2(boot, match, cache, counter, embedding) ==
    IF match.name # NoName
    THEN Outcome(Resp(200, match.name, match.sim, TRUE, FALSE, 0), "profile", 0, FALSE,
                 boot.profiles, boot.disk, boot.owner_enrolled, boot.owner_samples,
                 cache, counter)
    ELSE IdentifyStep3(boot, match,
                       find_or_create_unknown(boot.profiles, boot.disk, cache, counter,
                                              embedding))

IdentifyStep1(boot, cache, counter, embedding) ==
    IF boot.ret
    THEN Outcome(Resp(200, OWNER_NAME, SCALE, TRUE, TRUE, Len(boot.owner_samples)),
                 "bootstrap", 0, FALSE,
                 boot.profiles, boot.disk, boot.owner_enrolled, boot.owner_samples,
                 cache, counter)
    ELSE IdentifyStep2(boot, identify_speaker(boot.profiles, embedding), cache, counter,
                       embedding)

identify(P, D, enrolled, samples, cache, counter, embedding) ==
    IF embedding = Absent
    THEN Outcome(Status(200), "rejected", 0, FALSE, P, D, enrolled, samples, cache,
                 counter)
    ELSE IdentifyStep1(IF ~enrolled
                       THEN try_auto_enroll_owner(P, D, enrolled, samples, embedding)
                       ELSE Boot(FALSE, P, D, enrolled, samples),
                       cache, counter, embedding)

(***************************************************************************)
(* do_POST /enroll and /enroll_append.                                     *)
(***************************************************************************)
Stored(code, saved) ==
    [resp |-> Status(code), profiles |-> saved.profiles, disk |-> saved.disk]

\* A faulty enroll: audio that is too short is stored as a fixed embedding.
enrollUnchecked(P, D, name, embedding) ==
    IF name = NoName
    THEN Stored(400, [profiles |-> P, disk |-> D])
    ELSE Stored(200, save_profile(P, D, name,
                                  IF embedding = Absent THEN EmbO ELSE embedding))

enroll(P, D, name, embedding) ==
    IF name = NoName \/ embedding = Absent
    THEN Stored(400, [profiles |-> P, disk |-> D])
    ELSE Stored(200, save_profile(P, D, name, embedding))

Halved(a, b) == [i \in 1..Dim |-> (a[i] + b[i]) \div 2]

enroll_append(P, D, name, new_emb) ==
    IF name = NoName \/ new_emb = Absent
    THEN Stored(400, [profiles |-> P, disk |-> D])
    ELSE IF Has(P, name)
    THEN Stored(200, save_profile(P, D, name, Halved(Emb(P, name), new_emb)))
    ELSE Stored(200, save_profile(P, D, name, new_emb))

(***************************************************************************)
(* /enroll and /enroll_append when np.save inside save_profile (line 62)  *)
(* raises: the except clause of the handler answers 500.  /enroll_append  *)
(* has assigned the mean to profiles[name] (line 295) before the call.    *)
(***************************************************************************)
EnrollSaveFails(P, D) == Stored(500, [profiles |-> P, disk |-> D])

EnrollAppendSaveFails(P, D, name, new_emb) ==
    IF Has(P, name)
    THEN Stored(500, [profiles |-> Put(P, name, Halved(Emb(P, name), new_emb)),
                      disk |-> D])
    ELSE Stored(500, [profiles |-> P, disk |-> D])

(***************************************************************************)
(* do_POST /rename.  hit is the index of the cache entry that was renamed *)
(* (0: none).                                                              *)
(***************************************************************************)
FirstWithId(cache, id) ==
    IF \A i \in 1..Len(cache) : cache[i].id # id THEN 0
    ELSE CHOOSE i \in 1..Len(cache) :
            /\ cache[i].id = id
            /\ \A j \in 1..(i - 1) : cache[j].id # id

Renamed(code, hit, saved, cache) ==
    [resp |-> Status(code), hit |-> hit, profiles |-> saved.profiles,
     disk |-> saved.disk, unknown_cache |-> cache]

\* A faulty lookup: a name found nowhere is answered as renamed.
RenameUnknownLenient(P, D, cache, new_name, k) ==
    IF k = 0 THEN Renamed(200, 0, [profiles |-> P, disk |-> D], cache)
    ELSE Renamed(200, k,
                 save_profile(P, D, new_name, average_embeddings(cache[k].embeddings)),
                 [cache EXCEPT ![k].id = new_name])

\* A faulty cluster rename: the profile is stored but the cluster keeps its id.
RenameUnknownKeepingId(P, D, cache, new_name, k) ==
    IF k = 0 THEN Renamed(404, 0, [profiles |-> P, disk |-> D], cache)
    ELSE Renamed(200, k,
                 save_profile(P, D, new_name, average_embeddings(cache[k].embeddings)),
                 cache)

RenameUnknown(P, D, cache, new_name, k) ==
    IF k = 0 THEN Renamed(404, 0, [profiles |-> P, disk |-> D], cache)
    ELSE Renamed(200, k,
                 save_profile(P, D, new_name, average_embeddings(cache[k].embeddings)),
                 [cache EXCEPT ![k].id = new_name])

RenameProfile(P, D, cache, old_name, new_name) ==
    Renamed(200, 0,
            save_profile(Pop(P, old_name), DiskRemove(D, old_name), new_name,
                         Emb(P, old_name)),
            cache)

(***************************************************************************)
(* /rename of a profile when a file operation raises: os.remove (line     *)
(* 329) or np.save inside save_profile (line 62).  The branch has no      *)
(* try/except, so do_POST ends there and no response is sent (code 0).    *)
(***************************************************************************)
RenameRemoveFails(P, D, cache, old_name) ==
    Renamed(0, 0, [profiles |-> Pop(P, old_name), disk |-> D], cache)

RenameSaveFails(P, D, cache, old_name) ==
    Renamed(0, 0, [profiles |-> Pop(P, old_name), disk |-> DiskRemove(D, old_name)],
            cache)

rename(P, D, cache, old_name, new_name) ==
    IF old_name = NoName \/ new_name = NoName
    THEN Renamed(400, 0, [profiles |-> P, disk |-> D], cache)
    ELSE IF ~Has(P, old_name)
    THEN RenameUnknown(P, D, cache, new_name, FirstWithId(cache, old_name))
    ELSE RenameProfile(P, D, cache, old_name, new_name)

(***************************************************************************)
(* load_profiles: os.listdir fixes no order, so the dict may come out in  *)
(* any order of the records.                                               *)
(***************************************************************************)
LoadOrders(D) ==
    LET n == Cardinality(DOMAIN D)
        orders == {f \in [1..n -> DOMAIN D] : \A i, j \in 1..n : f[i] = f[j] => i = j}
    IN  {[i \in 1..n |-> [name |-> f[i], emb |-> D[f[i]]]] : f \in orders}

(***************************************************************************)
(* The request log.  Each entry keeps the request, the response, the      *)
(* branch that answered and what the profile names were around it.        *)
(***************************************************************************)
Cold ==
    /\ profiles = <<>>
    /\ ~owner_enrolled
    /\ owner_samples = <<>>
    /\ unknown_cache = <<>>

Unwritten(P, Q, names) ==
    {n \in names : Has(P, n) /\ Has(Q, n) /\ Emb(P, n) = Emb(Q, n)}

Log(op, name, new, emb, resp, path) ==
    /\ hist' = LastN(Append(hist,
                     [op |-> op, name |-> name, new |-> new, emb |-> emb,
                      resp |-> resp, path |-> path,
                      cold |-> Cold,
                      enrolled_before |-> owner_enrolled,
                      samples_before |-> owner_samples,
                      before |-> profiles,
                      after |-> profiles',
                      clobbered |-> IF op = "identify"
                                    THEN explicit \ Unwritten(profiles, profiles', explicit)
                                    ELSE {},
                      reached |-> IF op = "identify"
                                  THEN {k \in DOMAIN promotions \cap DOMAIN promotions' :
                                          /\ promotions'[k] > promotions[k]
                                          /\ unknown_cache'[k].count = UNKNOWN_ENROLL_SAMPLES}
                                  ELSE {},
                      raced |-> \E c \in Clients :
                                    /\ pending[c] # Idle
                                    /\ pending'[c] = Idle
                                    /\ pending[c].seen.unknown_cache # unknown_cache]),
                     window)
    /\ window' = window
    /\ owner_enroll_samples' = owner_enroll_samples

(***************************************************************************)
(* Requests.                                                               *)
(***************************************************************************)
Identified(r, body) ==
    /\ profiles' = r.profiles
    /\ disk' = r.disk
    /\ owner_enrolled' = r.owner_enrolled
    /\ owner_samples' = r.owner_samples
    /\ unknown_cache' = r.unknown_cache
    /\ unknown_counter' = r.unknown_counter
    /\ alloc_log' = IF r.path = "new" THEN Append(alloc_log, r.resp.speaker)
                    ELSE alloc_log
    /\ promotions' = IF r.path = "new" THEN Append(promotions, 0)
                     ELSE IF r.promoted
                     THEN [promotions EXCEPT ![r.hit] = @ + 1]
                     ELSE promotions
    /\ explicit' = Unwritten(profiles, r.profiles, explicit)
    /\ Log("identify", NoName, NoName, body, r.resp, r.path)
    /\ nops' = nops + 1
    /\ nexplicit' = IF body = Absent THEN nexplicit + 1 ELSE nexplicit

DoIdentify(body) ==
    Identified(identify(profiles, disk, owner_enrolled, owner_samples,
                        unknown_cache, unknown_counter, body), body)

EnrollDone(op, r, name, body) ==
    /\ profiles' = r.profiles
    /\ disk' = r.disk
    /\ explicit' = IF r.resp.code = 200 THEN explicit \cup {name} ELSE explicit
    /\ Log(op, name, NoName, body, r.resp, op)
    /\ nops' = nops + 1
    /\ nexplicit' = nexplicit + 1
    /\ UNCHANGED <<owner_enrolled, owner_samples, unknown_cache,
                   unknown_counter, alloc_log, promotions>>

DoEnroll(name, body) ==
    EnrollDone("enroll", enroll(profiles, disk, name, body), name, body)

DoEnrollAppend(name, body) ==
    EnrollDone("enroll_append", enroll_append(profiles, disk, name, body), name, body)

RenameDone(r, old_name, new_name) ==
    /\ profiles' = r.profiles
    /\ disk' = r.disk
    /\ unknown_cache' = r.unknown_cache
    /\ explicit' = IF r.resp.code = 200
                   THEN (explicit \ {old_name}) \cup {new_name}
                   ELSE explicit
    /\ Log("rename", old_name, new_name, Absent, r.resp,
           IF r.resp.code = 0 THEN "failed"
           ELSE IF r.resp.code # 200 THEN "rejected"
           ELSE IF r.hit = 0 THEN "profile" ELSE "cluster")
    /\ nops' = nops + 1
    /\ nexplicit' = nexplicit + 1
    /\ UNCHANGED <<owner_enrolled, owner_samples, unknown_counter,
                   alloc_log, promotions>>

DoRename(old_name, new_name) ==
    RenameDone(rename(profiles, disk, unknown_cache, old_name, new_name),
               old_name, new_name)

(***************************************************************************)
(* do_POST /reset: reset_all.                                              *)
(***************************************************************************)
\* A faulty reset: the pending owner samples are kept.
ResetKeepingSamples ==
    /\ profiles' = <<>>
    /\ owner_enrolled' = FALSE
    /\ unknown_counter' = 0
    /\ unknown_cache' = <<>>
    /\ disk' = EmptyDisk
    /\ promotions' = <<>>
    /\ explicit' = {}
    /\ Log("reset", NoName, NoName, Absent, Status(200), "reset")
    /\ nops' = nops + 1
    /\ nexplicit' = nexplicit + 1
    /\ alloc_log' = Append(alloc_log, NoName)
    /\ UNCHANGED owner_samples

Reset ==
    /\ profiles' = <<>>
    /\ owner_enrolled' = FALSE
    /\ owner_samples' = <<>>
    /\ unknown_counter' = 0
    /\ unknown_cache' = <<>>
    /\ disk' = EmptyDisk
    /\ promotions' = <<>>
    /\ explicit' = {}
    /\ Log("reset", NoName, NoName, Absent, Status(200), "reset")
    /\ nops' = nops + 1
    /\ nexplicit' = nexplicit + 1
    /\ alloc_log' = Append(alloc_log, NoName)

(***************************************************************************)
(* The process is restarted: the module globals are initialised again     *)
(* and load_profiles reads the records back.                               *)
(***************************************************************************)
Restart ==
    /\ profiles' \in LoadOrders(disk)
    /\ owner_enrolled' = (OWNER_NAME \in DOMAIN disk)
    /\ owner_samples' = <<>>
    /\ unknown_counter' = 0
    /\ unknown_cache' = <<>>
    /\ alloc_log' = <<>>
    /\ promotions' = <<>>
    /\ explicit' = DOMAIN disk
    /\ Log("restart", NoName, NoName, Absent, Status(200), "restart")
    /\ nops' = nops + 1
    /\ nexplicit' = nexplicit + 1
    /\ UNCHANGED disk

Identify == \E body \in Embeddings : DoIdentify(body)

IdentifyRejected == DoIdentify(Absent)

Enroll == \E name \in UserNames, body \in EnrollEmbeddings : DoEnroll(name, body)

EnrollRejected == DoEnroll(NoName, EmbA) \/ DoEnroll("Alice", Absent)

EnrollAppend ==
    \E name \in UserNames, body \in EnrollEmbeddings : DoEnrollAppend(name, body)

EnrollAppendRejected == DoEnrollAppend(NoName, EmbA) \/ DoEnrollAppend("Alice", Absent)

EnrollFails ==
    \E name \in UserNames, body \in EnrollEmbeddings :
        \/ /\ ~Has(profiles, name)
           /\ EnrollDone("enroll", EnrollSaveFails(profiles, disk), name, body)
        \/ /\ Has(profiles, name)
           /\ EnrollDone("enroll_append",
                         EnrollAppendSaveFails(profiles, disk, name, body), name, body)

Rename == \E old_name \in UserNames, new_name \in UserNames :
              DoRename(old_name, new_name)

RenameRejected == DoRename(NoName, "Alice")

RenameFails ==
    \E old_name \in UserNames :
        /\ Has(profiles, old_name)
        /\ \/ RenameDone(RenameRemoveFails(profiles, disk, unknown_cache, old_name),
                         old_name, "Alice")
           \/ RenameDone(RenameSaveFails(profiles, disk, unknown_cache, old_name),
                         old_name, "Alice")

(***************************************************************************)
(* Startup: PROFILES_DIR holds what earlier runs left there.              *)
(***************************************************************************)
InitDisks ==
    { EmptyDisk,
      [n \in {OWNER_NAME} |-> EmbO],
      [n \in {OWNER_NAME, SpeakerId(1)} |-> IF n = OWNER_NAME THEN EmbO ELSE EmbX] }

Configured(D, w, n) ==
    /\ disk = D
    /\ window = w
    /\ owner_enroll_samples = n
    /\ profiles \in LoadOrders(D)
    /\ owner_enrolled = (OWNER_NAME \in DOMAIN D)
    /\ owner_samples = <<>>
    /\ unknown_counter = 0
    /\ unknown_cache = <<>>
    /\ hist = <<>>
    /\ alloc_log = <<>>
    /\ promotions = <<>>
    /\ explicit = DOMAIN D
    /\ pending = [c \in Clients |-> Idle]
    /\ nops = 0
    /\ nexplicit = 0

Started(D, w) == Configured(D, w, OWNER_ENROLL_SAMPLES)

Init == \E D \in InitDisks : Started(D, HistLen)

MayExplicit == nops < MaxOps /\ nexplicit < MaxExplicit

Next ==
    \/ nops < MaxOps /\ UNCHANGED pending /\ Identify
    \/ MayExplicit /\ UNCHANGED pending /\ IdentifyRejected
    \/ MayExplicit /\ UNCHANGED pending /\ Enroll
    \/ MayExplicit /\ UNCHANGED pending /\ EnrollRejected
    \/ MayExplicit /\ UNCHANGED pending /\ EnrollAppend
    \/ MayExplicit /\ UNCHANGED pending /\ EnrollAppendRejected
    \/ MayExplicit /\ UNCHANGED pending /\ EnrollFails
    \/ MayExplicit /\ UNCHANGED pending /\ Rename
    \/ MayExplicit /\ UNCHANGED pending /\ RenameRejected
    \/ MayExplicit /\ UNCHANGED pending /\ RenameFails
    \/ MayExplicit /\ UNCHANGED pending /\ Reset
    \/ MayExplicit /\ UNCHANGED pending /\ Restart

Spec == Init /\ [][Next]_vars

(***************************************************************************)
(* A longer session in which the callers identify, rename the first       *)
(* cluster and reset; hist retains the whole session.                      *)
(***************************************************************************)
InitTrack == \E D \in InitDisks : Started(D, HistLenTrack)

RenameTrack == DoRename(SpeakerId(1), "Alice")

NextTrack ==
    \/ nops < MaxOpsTrack /\ UNCHANGED pending /\ Identify
    \/ nops < MaxOpsTrack /\ UNCHANGED pending /\ RenameTrack
    \/ nops < MaxOpsTrack /\ UNCHANGED pending /\ Reset

SpecTrack == InitTrack /\ [][NextTrack]_vars

(***************************************************************************)
(* A long session with the owner enrolled in which two voices alternate   *)
(* and no utterance is recognised by a stored profile, so that every      *)
(* identify is handled by find_or_create_unknown.                          *)
(***************************************************************************)
DriftEmbeddings ==
    {<<1000, 0>>, <<914, 407>>, <<809, 588>>, <<407, 914>>, <<208, 978>>, <<0, 1000>>}

InitDrift == Started([n \in {OWNER_NAME} |-> EmbO], HistLenDrift)

IdentifyDrift ==
    \E body \in DriftEmbeddings :
        /\ identify_speaker(profiles, body).name = NoName
        /\ DoIdentify(body)

NextDrift == nops < MaxOpsDrift /\ UNCHANGED pending /\ IdentifyDrift

SpecDrift == InitDrift /\ [][NextDrift]_vars

(***************************************************************************)
(* Cold starts under each configured OWNER_ENROLL_SAMPLES (line 24 reads  *)
(* it from the environment), followed by identifies.                       *)
(***************************************************************************)
InitConfig == \E n \in 1..MaxEnrollSamples : Configured(EmptyDisk, HistLen, n)

NextConfig == nops < MaxOpsConfig /\ UNCHANGED pending /\ Identify

SpecConfig == InitConfig /\ [][NextConfig]_vars

(***************************************************************************)
(* A session with the owner enrolled in which cluster ids are renamed to  *)
(* one another, to an id not handed out yet, or to a user's name.         *)
(***************************************************************************)
ClusterNames == {SpeakerId(1), SpeakerId(2), "Alice"}

InitNames == Started([n \in {OWNER_NAME} |-> EmbO], HistLen)

RenameNames ==
    \E old_name \in ClusterNames, new_name \in ClusterNames :
        DoRename(old_name, new_name)

NextNames ==
    \/ nops < MaxOpsNames /\ UNCHANGED pending /\ Identify
    \/ nops < MaxOpsNames /\ UNCHANGED pending /\ RenameNames
    \/ nops < MaxOpsNames /\ UNCHANGED pending /\ Reset

SpecNames == InitNames /\ [][NextNames]_vars

(***************************************************************************)
(* Concurrent callers.  Each client sends a request and waits for the     *)
(* response; HTTPServer.serve_forever takes the waiting connections one   *)
(* at a time, in any order, and runs do_POST to its end on the single     *)
(* server thread before it takes the next.  seen is what the globals were *)
(* when the request was sent.                                              *)
(***************************************************************************)
Globals ==
    [profiles |-> profiles, disk |-> disk, owner_enrolled |-> owner_enrolled,
     owner_samples |-> owner_samples, unknown_cache |-> unknown_cache,
     unknown_counter |-> unknown_counter]

Requests ==
    {[op |-> "identify", emb |-> e] : e \in Embeddings}
        \cup {[op |-> "rename", emb |-> Absent], [op |-> "reset", emb |-> Absent]}

InFlight == Cardinality({c \in Clients : pending[c] # Idle})

Send(c) ==
    /\ pending[c] = Idle
    /\ nops + InFlight < MaxOpsConc
    /\ \E q \in Requests :
            pending' = [pending EXCEPT ![c] = [op |-> q.op, emb |-> q.emb,
                                               seen |-> Globals]]
    /\ UNCHANGED <<profiles, disk, owner_enrolled, owner_samples,
                   owner_enroll_samples, unknown_counter,
                   unknown_cache, hist, window, alloc_log, promotions, explicit,
                   nops, nexplicit>>

\* A faulty server: the handler works on the globals as they were when the
\* request was sent.
HandlerViewStale(c) == pending[c].seen

\* the globals the handler of client c's request reads
HandlerView(c) == Globals

IdentifyOn(v, body) ==
    identify(v.profiles, v.disk, v.owner_enrolled, v.owner_samples,
             v.unknown_cache, v.unknown_counter, body)

RenameOn(v, old_name, new_name) ==
    rename(v.profiles, v.disk, v.unknown_cache, old_name, new_name)

Served(c) == pending' = [pending EXCEPT ![c] = Idle]

ServeIdentify(c) ==
    /\ pending[c].op = "identify"
    /\ Served(c)
    /\ Identified(IdentifyOn(HandlerView(c), pending[c].emb), pending[c].emb)

ServeRename(c) ==
    /\ pending[c].op = "rename"
    /\ Served(c)
    /\ RenameDone(RenameOn(HandlerView(c), SpeakerId(1), "Alice"), SpeakerId(1), "Alice")

ServeReset(c) ==
    /\ pending[c].op = "reset"
    /\ Served(c)
    /\ Reset

InitConc == \E D \in InitDisks : Started(D, MaxOpsConc)

NextConc ==
    \/ \E c \in Clients : Send(c)
    \/ \E c \in Clients : ServeIdentify(c)
    \/ \E c \in Clients : ServeRename(c)
    \/ \E c \in Clients : ServeReset(c)

SpecConc == InitConc /\ [][NextConc]_vars

(***************************************************************************)
(* do_GET /profiles: the response body; it changes nothing.               *)
(***************************************************************************)
ListProfiles ==
    [profiles |-> [i \in 1..Len(profiles) |-> profiles[i].name],
     count |-> Len(profiles),
     ownerEnrolled |-> owner_enrolled]

TypeOK ==
    /\ owner_enrolled \in BOOLEAN
    /\ unknown_counter >= 0
    /\ Len(promotions) = Len(unknown_cache)
    /\ Len(hist) <= window

(***************************************************************************)
(* Reading the request log.                                                *)
(***************************************************************************)
Last == hist[Len(hist)]

Prev == hist[Len(hist) - 1]

IsIdentify(r) == r.op = "identify" /\ r.emb # Absent

AnsweredAs(r, name, sim) ==
    r.resp.known /\ r.resp.speaker = name /\ r.resp.similarity = sim

\* the owner bootstrap claims the embedding of request r
BootstrapClaims(r) ==
    /\ ~r.enrolled_before
    /\ \/ r.samples_before = <<>>
       \/ cosine_sim(r.emb, average_embeddings(r.samples_before)) >= AUTO_ENROLL_THRESHOLD

\* name is strictly the most similar profile of P to embedding
StrictlyBest(P, name, embedding) ==
    \A i \in 1..Len(P) :
        P[i].name # name =>
            cosine_sim(embedding, P[i].emb) < cosine_sim(embedding, Emb(P, name))

EnrolledThenIdentified ==
    /\ Len(hist) >= 2
    /\ Prev.op = "enroll"
    /\ Prev.resp.code = 200
    /\ IsIdentify(Last)
    /\ cosine_sim(Last.emb, Prev.emb) >= SIMILARITY_THRESHOLD

(***************************************************************************)
(* C1 as stated: from any reachable state, cold start and other profiles  *)
(* included, enroll(name, e) followed immediately by identify(e2) with    *)
(* similarity(e, e2) at or above the identification threshold returns     *)
(* known=true, label=name and similarity(e, e2).                           *)
(***************************************************************************)
C1_Original ==
    EnrolledThenIdentified =>
        AnsweredAs(Last, Prev.name, cosine_sim(Last.emb, Prev.emb))

(***************************************************************************)
(* C1: enroll(name, e) followed immediately by identify(e2) returns       *)
(* known=true, label=name and similarity(e, e2) when similarity(e, e2) is *)
(* at or above the identification threshold, the owner bootstrap does not *)
(* claim e2 (the owner is enrolled, or e2 is inconsistent with the        *)
(* pending samples), and no other stored profile is at least as similar   *)
(* to e2 as e is.                                                          *)
(***************************************************************************)
C1_EnrollThenIdentify ==
    ( /\ EnrolledThenIdentified
      /\ ~BootstrapClaims(Last)
      /\ StrictlyBest(Last.before, Prev.name, Last.emb) ) =>
        AnsweredAs(Last, Prev.name, cosine_sim(Last.emb, Prev.emb))

C1_Witness ==
    /\ EnrolledThenIdentified
    /\ ~BootstrapClaims(Last)
    /\ StrictlyBest(Last.before, Prev.name, Last.emb)
    /\ Len(Last.before) >= 2
    /\ Last.emb # Prev.emb
    /\ Last.resp.speaker = Prev.name

(***************************************************************************)
(* C2: with the owner enrolled, so that the bootstrap claims nothing,     *)
(* once the cluster tracker has answered identify(e) with a cluster id    *)
(* that named no profile before that call, and that id has been renamed   *)
(* with success (the cluster promoted or not by then), every later        *)
(* identify(e) returns the new name.  Only identify requests lie between  *)
(* the three requests.                                                     *)
(***************************************************************************)
C2_RenamePreservesIdentity ==
    \A i, r, j \in DOMAIN hist :
        ( /\ i < r /\ r < j
          /\ IsIdentify(hist[i])
          /\ hist[i].enrolled_before
          /\ hist[r].op = "rename" /\ hist[r].resp.code = 200
          /\ hist[i].resp.speaker = hist[r].name
          /\ hist[i].path \in {"new", "joined"}
          /\ ~Has(hist[i].before, hist[r].name)
          /\ IsIdentify(hist[j])
          /\ hist[j].emb = hist[i].emb
          /\ \A k \in (i + 1)..(j - 1) : k # r => IsIdentify(hist[k]) ) =>
            hist[j].resp.speaker = hist[r].new

(***************************************************************************)
(* C3: a rename whose old name is neither a profile name nor the id of an *)
(* unknown cluster is answered not-found (404) and leaves the profile     *)
(* map, the durable records, the cluster list, the cluster counter and    *)
(* the owner-bootstrap state unchanged.                                    *)
(***************************************************************************)
C3_RenameMissing ==
    [][ ( /\ nops' = nops + 1
          /\ hist'[Len(hist')].op = "rename"
          /\ hist'[Len(hist')].name # NoName
          /\ hist'[Len(hist')].new # NoName
          /\ ~Has(profiles, hist'[Len(hist')].name)
          /\ FirstWithId(unknown_cache, hist'[Len(hist')].name) = 0 ) =>
            ( /\ hist'[Len(hist')].resp.code = 404
              /\ UNCHANGED <<profiles, disk, unknown_cache, unknown_counter,
                             owner_enrolled, owner_samples>> ) ]_vars

C3_Witness ==
    /\ Len(hist) >= 1
    /\ Last.op = "rename"
    /\ Last.resp.code = 404
    /\ profiles # <<>>
    /\ unknown_cache # <<>>

(***************************************************************************)
(* C4: right after a reset the profile map and the durable records are    *)
(* empty, the owner is not enrolled and has no pending samples, and the   *)
(* cluster list is empty; an identify that follows immediately is taken   *)
(* as the first owner sample (label = owner name, autoEnrolling = true).  *)
(***************************************************************************)
C4_ResetClearsEverything ==
    /\ (Len(hist) >= 1 /\ Last.op = "reset") =>
            /\ profiles = <<>>
            /\ disk = EmptyDisk
            /\ ~owner_enrolled
            /\ owner_samples = <<>>
            /\ unknown_cache = <<>>
    /\ (Len(hist) >= 2 /\ Prev.op = "reset" /\ IsIdentify(Last)) =>
            /\ Last.resp.speaker = OWNER_NAME
            /\ Last.resp.autoEnrolling
            /\ Last.resp.samples = 1
            /\ owner_samples = <<Last.emb>>
            /\ profiles = <<>>
            /\ unknown_cache = <<>>

C4_Witness ==
    /\ Len(hist) >= 3
    /\ Prev.op = "reset"
    /\ IsIdentify(Last)
    /\ hist[Len(hist) - 2].after # <<>>
    /\ hist[Len(hist) - 2].enrolled_before
    /\ Last.resp.autoEnrolling

(***************************************************************************)
(* Three consecutive identifies, the first of which opens the session's   *)
(* first unknown cluster.                                                  *)
(***************************************************************************)
MutuallySimilar(a, b, c) ==
    /\ cosine_sim(a, b) >= AUTO_ENROLL_THRESHOLD
    /\ cosine_sim(a, c) >= AUTO_ENROLL_THRESHOLD
    /\ cosine_sim(b, c) >= AUTO_ENROLL_THRESHOLD

MatchesNoProfile(P, embedding) == identify_speaker(P, embedding).name = NoName

ThreeUnknown(i) ==
    /\ i + 2 <= Len(hist)
    /\ \A k \in i..(i + 2) : IsIdentify(hist[k])
    /\ hist[i].enrolled_before
    /\ hist[i].path = "new"
    /\ hist[i].resp.speaker = SpeakerId(1)
    /\ MutuallySimilar(hist[i].emb, hist[i + 1].emb, hist[i + 2].emb)
    /\ \A k \in i..(i + 2) : MatchesNoProfile(hist[i].before, hist[k].emb)

(***************************************************************************)
(* C5: with the owner enrolled, three consecutive identifies of mutually  *)
(* similar embeddings that match no stored profile (the first opening the *)
(* session's first cluster) all return the same cluster id with           *)
(* known=false; that id is a profile after the third call and was not one *)
(* after the first or the second.                                          *)
(***************************************************************************)
C5_ClusterPromotion ==
    \A i \in DOMAIN hist :
        ThreeUnknown(i) =>
            /\ \A k \in i..(i + 2) :
                    /\ hist[k].resp.speaker = hist[i].resp.speaker
                    /\ ~hist[k].resp.known
            /\ ~Has(hist[i].after, hist[i].resp.speaker)
            /\ ~Has(hist[i + 1].after, hist[i].resp.speaker)
            /\ Has(hist[i + 2].after, hist[i].resp.speaker)

(***************************************************************************)
(* C6 as stated: two embeddings whose similarity is below the             *)
(* cluster-match threshold are never members of the same unknown cluster. *)
(***************************************************************************)
C6_Original ==
    \A k \in DOMAIN unknown_cache :
        \A m, n \in DOMAIN unknown_cache[k].embeddings :
            cosine_sim(unknown_cache[k].embeddings[m], unknown_cache[k].embeddings[n])
                >= AUTO_ENROLL_THRESHOLD

(***************************************************************************)
(* C6: an embedding is placed in an existing unknown cluster only when    *)
(* its similarity to the average of the members the cluster held before   *)
(* it is at or above the cluster-match threshold; isolation holds against *)
(* that running average, not between every two members.                   *)
(***************************************************************************)
C6_JoinsAgainstAverage ==
    \A k \in DOMAIN unknown_cache :
        \A m \in 2..Len(unknown_cache[k].embeddings) :
            cosine_sim(unknown_cache[k].embeddings[m],
                       average_embeddings(SubSeq(unknown_cache[k].embeddings, 1, m - 1)))
                >= AUTO_ENROLL_THRESHOLD

C6_Witness ==
    \E k \in DOMAIN unknown_cache :
        /\ Len(unknown_cache[k].embeddings) >= 3
        /\ \E m, n \in DOMAIN unknown_cache[k].embeddings :
                cosine_sim(unknown_cache[k].embeddings[m], unknown_cache[k].embeddings[n])
                    < AUTO_ENROLL_THRESHOLD
        /\ Len(unknown_cache) >= 2

(***************************************************************************)
(* The last n requests are identifies that started from a cold state, the *)
(* first three pairwise similar.                                           *)
(***************************************************************************)
ColdRun(h, n) ==
    /\ h[1].cold
    /\ \A k \in 1..n : IsIdentify(h[k])
    /\ n >= 2 => cosine_sim(h[1].emb, h[2].emb) >= AUTO_ENROLL_THRESHOLD
    /\ n >= 3 => /\ cosine_sim(h[1].emb, h[3].emb) >= AUTO_ENROLL_THRESHOLD
                 /\ cosine_sim(h[2].emb, h[3].emb) >= AUTO_ENROLL_THRESHOLD

ColdStartRun(n) == Len(hist) >= n /\ ColdRun(LastN(hist, n), n)

OwnerAverage(h) == average_embeddings(<<h[1].emb, h[2].emb, h[3].emb>>)

OwnerCreatedAtThird ==
    /\ (ColdStartRun(1) \/ ColdStartRun(2)) =>
            /\ ~Has(profiles, OWNER_NAME)
            /\ ~owner_enrolled
            /\ Last.resp.autoEnrolling
    /\ ColdStartRun(3) =>
            /\ profiles = <<[name |-> OWNER_NAME, emb |-> OwnerAverage(LastN(hist, 3))]>>
            /\ disk = [n \in {OWNER_NAME} |-> OwnerAverage(LastN(hist, 3))]
            /\ owner_enrolled
            /\ owner_samples = <<>>
            /\ Last.resp.speaker = OWNER_NAME

(***************************************************************************)
(* C7 as stated: from a cold start three pairwise similar embeddings      *)
(* create the owner profile exactly at the third identify, and a fourth   *)
(* embedding similar to them (at or above the bootstrap threshold to      *)
(* each) is answered with the owner name by profile match.                *)
(***************************************************************************)
C7_Original ==
    /\ OwnerCreatedAtThird
    /\ ( /\ ColdStartRun(4)
         /\ \A k \in 1..3 :
                cosine_sim(Last.emb, LastN(hist, 4)[k].emb) >= AUTO_ENROLL_THRESHOLD ) =>
            /\ Last.path = "profile"
            /\ Last.resp.speaker = OWNER_NAME
            /\ Last.resp.known
            /\ ~Last.resp.autoEnrolling

(***************************************************************************)
(* C7: from a cold start three pairwise similar embeddings create the     *)
(* owner profile exactly at the third identify; a fourth embedding whose  *)
(* similarity to the stored owner average is at or above the              *)
(* identification threshold is answered with the owner name by profile    *)
(* match (known=true, no autoEnrolling), the bootstrap state staying      *)
(* enrolled with no pending samples.                                       *)
(***************************************************************************)
C7_BootstrapDeterminism ==
    /\ OwnerCreatedAtThird
    /\ ( /\ ColdStartRun(4)
         /\ cosine_sim(Last.emb, OwnerAverage(LastN(hist, 4))) >= SIMILARITY_THRESHOLD ) =>
            /\ Last.path = "profile"
            /\ AnsweredAs(Last, OWNER_NAME,
                          cosine_sim(Last.emb, OwnerAverage(LastN(hist, 4))))
            /\ ~Last.resp.autoEnrolling
            /\ owner_enrolled
            /\ owner_samples = <<>>
            /\ profiles = Prev.after

C7_Witness ==
    /\ ColdStartRun(4)
    /\ cosine_sim(Last.emb, OwnerAverage(LastN(hist, 4))) >= SIMILARITY_THRESHOLD
    /\ LastN(hist, 4)[1].emb # LastN(hist, 4)[2].emb
    /\ Last.emb # Prev.emb
    /\ Last.path = "profile"

(***************************************************************************)
(* C8: an identify never replaces or removes the embedding of a profile   *)
(* that was enrolled, renamed or loaded from disk at startup.             *)
(***************************************************************************)
C8_IdentifyKeepsProfiles ==
    \A i \in DOMAIN hist : hist[i].clobbered = {}

(***************************************************************************)
(* C9 as stated: no cluster label Speaker_<n> is allocated twice within   *)
(* the life of the process, a reset included.                              *)
(***************************************************************************)
C9_Original ==
    \A i, j \in DOMAIN alloc_log :
        (i < j /\ alloc_log[i] # NoName) => alloc_log[i] # alloc_log[j]

\* the number of labels allocated since the last reset, the i-th entry included
SinceReset(i) ==
    Cardinality({k \in 1..i : \A m \in k..i : alloc_log[m] # NoName})

(***************************************************************************)
(* C9: between two resets the number n of the allocated label Speaker_<n> *)
(* strictly increases, by one from 1, so no label is allocated twice to   *)
(* two clusters, also across a promotion or a rename; a reset returns the *)
(* counter to zero and the labels start again at Speaker_1.               *)
(***************************************************************************)
C9_LabelsIncrease ==
    /\ \A i \in DOMAIN alloc_log :
            alloc_log[i] # NoName => alloc_log[i] = SpeakerId(SinceReset(i))
    /\ unknown_counter = SinceReset(Len(alloc_log))

C9_Witness ==
    \E i, j \in DOMAIN alloc_log :
        /\ i < j
        /\ alloc_log[i] = SpeakerId(1)
        /\ alloc_log[j] = SpeakerId(1)
        /\ \E k \in DOMAIN alloc_log : alloc_log[k] = SpeakerId(2)

(***************************************************************************)
(* C10: between resets no unknown cluster is promoted more than once,     *)
(* also after the promoted profile has been renamed.                      *)
(***************************************************************************)
C10_PromotedOnce ==
    \A k \in DOMAIN promotions : promotions[k] <= 1

(***************************************************************************)
(* C11: the current id of every unknown cluster that has been promoted    *)
(* is the name of a stored profile, whatever renames happened since.      *)
(***************************************************************************)
C11_PromotedIdIsProfile ==
    \A k \in DOMAIN unknown_cache :
        promotions[k] >= 1 => Has(profiles, unknown_cache[k].id)

(***************************************************************************)
(* Requests i < j of the log with no reset handled between them.          *)
(***************************************************************************)
NoResetBetween(i, j) == \A m \in i..j : hist[m].op # "reset"

NewCluster(r) == IsIdentify(r) /\ r.path = "new"

NeverBothPromote ==
    \A i, j \in DOMAIN hist :
        (i < j /\ NoResetBetween(i, j)) => hist[i].reached \cap hist[j].reached = {}

(***************************************************************************)
(* C12 as stated: under any interleaving of concurrent callers, two       *)
(* embeddings that match each other never both create a new cluster, no   *)
(* cluster id is allocated twice, and two calls never both promote a      *)
(* cluster as it reaches the promotion threshold.                          *)
(***************************************************************************)
C12_Original ==
    /\ \A i, j \in DOMAIN hist :
            ( /\ i < j
              /\ NoResetBetween(i, j)
              /\ NewCluster(hist[i])
              /\ NewCluster(hist[j]) ) =>
                cosine_sim(hist[i].emb, hist[j].emb) < AUTO_ENROLL_THRESHOLD
    /\ \A i, j \in DOMAIN alloc_log :
            (i < j /\ alloc_log[i] # NoName) => alloc_log[i] # alloc_log[j]
    /\ NeverBothPromote

(***************************************************************************)
(* C12: every request is handled as one atomic step, whatever the order   *)
(* in which the requests of concurrent callers are taken: two embeddings  *)
(* that match each other and are handled one directly after the other     *)
(* never both create a new cluster, no cluster id is allocated twice      *)
(* between two resets and the cluster list holds one entry per allocated  *)
(* id, and two calls never both promote a cluster as it reaches the       *)
(* promotion threshold.                                                    *)
(***************************************************************************)
C12_AtomicRequests ==
    /\ \A j \in DOMAIN hist :
            (j > 1 /\ NewCluster(hist[j - 1]) /\ NewCluster(hist[j])) =>
                cosine_sim(hist[j - 1].emb, hist[j].emb) < AUTO_ENROLL_THRESHOLD
    /\ \A i, j \in DOMAIN alloc_log :
            (i < j /\ alloc_log[i] # NoName /\ alloc_log[i] = alloc_log[j]) =>
                \E m \in i..j : alloc_log[m] = NoName
    /\ Len(unknown_cache) = unknown_counter
    /\ NeverBothPromote

C12_Witness ==
    /\ Len(hist) >= 3
    /\ Last.raced
    /\ IsIdentify(Last)
    /\ Last.path = "joined"
    /\ Last.reached # {}
    /\ Prev.raced
    /\ \E c \in Clients : pending[c] # Idle

(***************************************************************************)
(* C13: after every request the durable records and the in-memory         *)
(* profile map hold the same names with the same embeddings, so that a    *)
(* restart loads the profile map the process had.                          *)
(***************************************************************************)
C13_DiskMatchesMemory ==
    /\ Names(profiles) = DOMAIN disk
    /\ \A n \in DOMAIN disk : Emb(profiles, n) = disk[n]

(***************************************************************************)
(* C14: a rename whose old name is a stored profile either removes old    *)
(* and leaves new holding old's embedding in memory and durably, or       *)
(* changes nothing, also when a file operation fails part-way.            *)
(***************************************************************************)
C14_RenameAtomic ==
    [][ ( /\ nops' = nops + 1
          /\ hist'[Len(hist')].op = "rename"
          /\ hist'[Len(hist')].name # NoName
          /\ hist'[Len(hist')].new # NoName
          /\ Has(profiles, hist'[Len(hist')].name) ) =>
            \/ UNCHANGED <<profiles, disk>>
            \/ /\ Has(profiles', hist'[Len(hist')].new)
               /\ Emb(profiles', hist'[Len(hist')].new)
                    = Emb(profiles, hist'[Len(hist')].name)
               /\ hist'[Len(hist')].new \in DOMAIN disk'
               /\ disk'[hist'[Len(hist')].new] = Emb(profiles, hist'[Len(hist')].name)
               /\ hist'[Len(hist')].name # hist'[Len(hist')].new =>
                    /\ ~Has(profiles', hist'[Len(hist')].name)
                    /\ hist'[Len(hist')].name \notin DOMAIN disk' ]_vars

(***************************************************************************)
(* C15: a rename whose old name is no profile but the id of a cluster     *)
(* answers 200, stores the cluster's average as profile new on disk and   *)
(* in memory, creates no profile old and relabels the cluster; every      *)
(* later identify resolved by a relabelled cluster answers with its id.   *)
(* The two names are taken to differ: with old = new the stored profile   *)
(* is the profile named old.                                              *)
(***************************************************************************)
NewLog == hist'[Len(hist')]

ClusterRenameStep(k) ==
    /\ nops' = nops + 1
    /\ NewLog.op = "rename"
    /\ NewLog.name # NoName
    /\ NewLog.new # NoName
    /\ NewLog.new # NewLog.name
    /\ ~Has(profiles, NewLog.name)
    /\ k = FirstWithId(unknown_cache, NewLog.name)

JoinStep(k) ==
    /\ nops' = nops + 1
    /\ NewLog.op = "identify"
    /\ k \in DOMAIN unknown_cache'
    /\ unknown_cache'[k].count = unknown_cache[k].count + 1

C15_ClusterRename ==
    [][ \A k \in DOMAIN unknown_cache :
          /\ ClusterRenameStep(k) =>
               /\ NewLog.resp.code = 200
               /\ Has(profiles', NewLog.new)
               /\ Emb(profiles', NewLog.new)
                    = average_embeddings(unknown_cache[k].embeddings)
               /\ NewLog.new \in DOMAIN disk'
               /\ disk'[NewLog.new] = average_embeddings(unknown_cache[k].embeddings)
               /\ ~Has(profiles', NewLog.name)
               /\ NewLog.name \notin DOMAIN disk'
               /\ unknown_cache'[k].id = NewLog.new
          /\ (JoinStep(k) /\ unknown_cache[k].id \notin {SpeakerId(n) : n \in 1..MaxOpsTrack}) =>
               /\ NewLog.resp.speaker = unknown_cache[k].id
               /\ unknown_cache'[k].id = unknown_cache[k].id ]_vars

C15_Witness ==
    \E i, j \in DOMAIN hist :
        /\ i < j
        /\ hist[i].op = "rename" /\ hist[i].path = "cluster"
        /\ ~Has(hist[i].before, hist[i].name)
        /\ \A m \in i..j : hist[m].op # "reset"
        /\ hist[j].op = "identify" /\ hist[j].path = "joined"
        /\ hist[j].resp.speaker = hist[i].new
        /\ \E k \in DOMAIN unknown_cache :
              unknown_cache[k].id = hist[i].new /\ unknown_cache[k].count >= 2

(***************************************************************************)
(* C16: an identify, enroll or enroll_append whose embedding is absent    *)
(* names no speaker (enroll and enroll_append answer 400) and leaves the  *)
(* profiles, the disk records, the clusters, the cluster counter, the     *)
(* owner flag and the pending owner samples unchanged.                    *)
(***************************************************************************)
AbsentStep ==
    /\ nops' = nops + 1
    /\ NewLog.op \in {"identify", "enroll", "enroll_append"}
    /\ NewLog.emb = Absent

C16_AbsentRejected ==
    [][ AbsentStep =>
          /\ UNCHANGED <<profiles, disk, unknown_cache, unknown_counter,
                         owner_enrolled, owner_samples>>
          /\ NewLog.resp.speaker = NoName
          /\ ~NewLog.resp.known
          /\ ~NewLog.resp.autoEnrolling
          /\ NewLog.op # "identify" => NewLog.resp.code = 400 ]_vars

C16_Witness ==
    /\ Len(hist) >= 2
    /\ Last.op = "identify" /\ Last.emb = Absent
    /\ ~Last.enrolled_before
    /\ Last.samples_before # <<>>
    /\ owner_samples = Last.samples_before
    /\ unknown_cache # <<>>

(***************************************************************************)
(* C17: once owner_enrolled is true it stays true under every identify,   *)
(* enroll, enroll_append and rename of the running process, and a reset   *)
(* makes it false.                                                         *)
(***************************************************************************)
C17_EnrolledTerminal ==
    [][ (owner_enrolled /\ nops' = nops + 1) =>
          /\ NewLog.op \in {"identify", "enroll", "enroll_append", "rename"}
                => owner_enrolled'
          /\ NewLog.op = "reset" => ~owner_enrolled' ]_vars

C17_Witness ==
    /\ Len(hist) >= 2
    /\ Prev.op = "rename" /\ Prev.name = OWNER_NAME /\ Prev.resp.code = 200
    /\ IsIdentify(Last)
    /\ Last.enrolled_before
    /\ owner_enrolled
    /\ ~Has(profiles, OWNER_NAME)

(***************************************************************************)
(* C18: whenever owner_enrolled is true owner_samples is empty, and an    *)
(* identify handled while the owner is enrolled does not answer           *)
(* autoEnrolling and adds no owner sample.                                *)
(***************************************************************************)
C18_EnrolledHasNoSamples ==
    /\ owner_enrolled => owner_samples = <<>>
    /\ \A i \in DOMAIN hist :
          (hist[i].op = "identify" /\ hist[i].enrolled_before) =>
              /\ hist[i].samples_before = <<>>
              /\ ~hist[i].resp.autoEnrolling
              /\ hist[i].path # "bootstrap"
    /\ (Len(hist) >= 1 /\ Last.op = "identify" /\ Last.enrolled_before) =>
          owner_samples = <<>>

C18_Witness ==
    \E i \in DOMAIN hist :
        /\ i < Len(hist)
        /\ hist[i].path = "bootstrap"
        /\ ~hist[i].enrolled_before
        /\ Len(hist[i].samples_before) = OWNER_ENROLL_SAMPLES - 1
        /\ \A m \in i..Len(hist) : hist[m].op = "identify"
        /\ IsIdentify(Last)
        /\ Last.enrolled_before
        /\ cosine_sim(Last.emb, Emb(Last.before, OWNER_NAME)) >= AUTO_ENROLL_THRESHOLD
        /\ owner_enrolled

(***************************************************************************)
(* C19: an identify handled while a profile with the owner name exists    *)
(* accepts no bootstrap sample and does not answer autoEnrolling.         *)
(***************************************************************************)
C19_BootstrapOnlyWithoutOwner ==
    \A i \in DOMAIN hist :
        (hist[i].op = "identify" /\ Has(hist[i].before, OWNER_NAME)) =>
            /\ ~hist[i].resp.autoEnrolling
            /\ hist[i].path # "bootstrap"

(***************************************************************************)
(* C20: after a cold start, when the first utterance is followed by three *)
(* utterances that are mutually consistent and none consistent with the   *)
(* first, the owner is enrolled from those three.                         *)
(***************************************************************************)
GuestThenRecurring(h) ==
    /\ h[1].cold
    /\ \A k \in 1..4 : IsIdentify(h[k])
    /\ MutuallySimilar(h[2].emb, h[3].emb, h[4].emb)
    /\ \A k \in 2..4 : cosine_sim(h[k].emb, h[1].emb) < AUTO_ENROLL_THRESHOLD

C20_FirstRecurringIsOwner ==
    (Len(hist) >= 4 /\ GuestThenRecurring(LastN(hist, 4))) =>
        /\ owner_enrolled
        /\ Has(profiles, OWNER_NAME)
        /\ cosine_sim(Last.emb, Emb(profiles, OWNER_NAME)) >= SIMILARITY_THRESHOLD

(***************************************************************************)
(* C21: when the write of the profile file fails during enroll or         *)
(* enroll_append, the handler answers 500 and neither the profile map nor *)
(* the disk records have changed.                                          *)
(***************************************************************************)
C21_FailedWriteKeepsNothing ==
    [][ ( /\ nops' = nops + 1
          /\ NewLog.op \in {"enroll", "enroll_append"}
          /\ NewLog.resp.code = 500 ) =>
            UNCHANGED <<profiles, disk>> ]_vars

(***************************************************************************)
(* C22: an identify whose embedding the bootstrap accepts (owner not      *)
(* enrolled; no pending sample yet, or consistent with their average) is  *)
(* answered owner name, similarity 1.0, known, autoEnrolling, whatever    *)
(* profiles are stored; the clusters and the cluster counter are          *)
(* unchanged and every profile that existed keeps its embedding.          *)
(***************************************************************************)
AcceptedStep ==
    /\ nops' = nops + 1
    /\ NewLog.op = "identify"
    /\ NewLog.emb # Absent
    /\ ~owner_enrolled
    /\ \/ owner_samples = <<>>
       \/ cosine_sim(NewLog.emb, average_embeddings(owner_samples))
              >= AUTO_ENROLL_THRESHOLD

C22_BootstrapFrame ==
    [][ AcceptedStep =>
          /\ NewLog.resp.speaker = OWNER_NAME
          /\ NewLog.resp.similarity = SCALE
          /\ NewLog.resp.known
          /\ NewLog.resp.autoEnrolling
          /\ UNCHANGED <<unknown_cache, unknown_counter>>
          /\ \A n \in Names(profiles) :
                Has(profiles', n) /\ Emb(profiles', n) = Emb(profiles, n) ]_vars

(***************************************************************************)
(* C23: while the owner is not enrolled and samples are pending, an       *)
(* identify whose embedding is below the consistency threshold against    *)
(* their average leaves owner_samples and owner_enrolled unchanged and is *)
(* answered in the same call by profile matching when a profile matches,  *)
(* and otherwise by joining or creating a cluster.                        *)
(***************************************************************************)
TurnedAwayStep ==
    /\ nops' = nops + 1
    /\ NewLog.op = "identify"
    /\ NewLog.emb # Absent
    /\ ~owner_enrolled
    /\ owner_samples # <<>>
    /\ cosine_sim(NewLog.emb, average_embeddings(owner_samples)) < AUTO_ENROLL_THRESHOLD

C23_TurnedAwayFallsThrough ==
    [][ TurnedAwayStep =>
          /\ UNCHANGED <<owner_samples, owner_enrolled>>
          /\ ~NewLog.resp.autoEnrolling
          /\ NewLog.resp.code = 200
          /\ IF MatchesNoProfile(profiles, NewLog.emb)
             THEN /\ ~NewLog.resp.known
                  /\ \/ /\ Len(unknown_cache') = Len(unknown_cache) + 1
                        /\ unknown_cache'[Len(unknown_cache')].id = NewLog.resp.speaker
                     \/ \E k \in DOMAIN unknown_cache :
                           /\ unknown_cache'[k].count = unknown_cache[k].count + 1
                           /\ unknown_cache'[k].id = NewLog.resp.speaker
             ELSE /\ NewLog.resp.known
                  /\ NewLog.resp.speaker = identify_speaker(profiles, NewLog.emb).name
                  /\ UNCHANGED unknown_cache ]_vars

C23_Witness ==
    /\ Len(hist) >= 2
    /\ IsIdentify(Last)
    /\ ~Last.enrolled_before
    /\ Last.samples_before # <<>>
    /\ cosine_sim(Last.emb, average_embeddings(Last.samples_before))
          < AUTO_ENROLL_THRESHOLD
    /\ Last.path = "joined"
    /\ owner_samples = Last.samples_before
    /\ ~owner_enrolled

(***************************************************************************)
(* C24 as stated: when the bootstrap does not claim the embedding and     *)
(* profiles are stored, identify answers known exactly when the greatest  *)
(* similarity over the profiles is at or above the identification         *)
(* threshold, with a profile attaining it as label and that similarity;   *)
(* otherwise it answers not known with the greatest profile similarity.   *)
(***************************************************************************)
Sims(P, embedding) == {cosine_sim(embedding, P[i].emb) : i \in 1..Len(P)}

MaxSim(P, embedding) ==
    CHOOSE m \in Sims(P, embedding) : \A x \in Sims(P, embedding) : x <= m

NotClaimed(r) == IsIdentify(r) /\ ~BootstrapClaims(r)

KnownAsBest(r) ==
    /\ r.resp.known
    /\ ~r.resp.autoEnrolling
    /\ Has(r.before, r.resp.speaker)
    /\ cosine_sim(r.emb, Emb(r.before, r.resp.speaker)) = MaxSim(r.before, r.emb)
    /\ r.resp.similarity = MaxSim(r.before, r.emb)

C24_Original ==
    (Len(hist) >= 1 /\ NotClaimed(Last) /\ Last.before # <<>>) =>
        IF MaxSim(Last.before, Last.emb) >= SIMILARITY_THRESHOLD
        THEN KnownAsBest(Last)
        ELSE /\ ~Last.resp.known
             /\ Last.resp.similarity = MaxSim(Last.before, Last.emb)

(***************************************************************************)
(* C24: as above, except that a decision that is not known reports the    *)
(* greatest profile similarity only when that is positive, and 0 when no  *)
(* profile is stored or none has a positive similarity; the reported      *)
(* value is below the identification threshold.                           *)
(***************************************************************************)
FlooredMaxSim(P, embedding) ==
    IF P = <<>> THEN 0
    ELSE IF MaxSim(P, embedding) > 0 THEN MaxSim(P, embedding) ELSE 0

C24_BestMatchWins ==
    (Len(hist) >= 1 /\ NotClaimed(Last)) =>
        IF Last.before # <<>> /\ MaxSim(Last.before, Last.emb) >= SIMILARITY_THRESHOLD
        THEN KnownAsBest(Last)
        ELSE /\ ~Last.resp.known
             /\ Last.resp.similarity = FlooredMaxSim(Last.before, Last.emb)
             /\ Last.resp.similarity < SIMILARITY_THRESHOLD

C24_Witness ==
    /\ Len(hist) >= 1
    /\ NotClaimed(Last)
    /\ Last.resp.known
    /\ \E i, j \in 1..Len(Last.before) :
          /\ i < j
          /\ cosine_sim(Last.emb, Last.before[i].emb) >= SIMILARITY_THRESHOLD
          /\ cosine_sim(Last.emb, Last.before[j].emb)
                > cosine_sim(Last.emb, Last.before[i].emb)
          /\ Last.resp.speaker = Last.before[j].name

(***************************************************************************)
(* C25: an identify that reaches the cluster tracker joins the earliest   *)
(* created cluster whose average is at or above the cluster threshold,    *)
(* whatever the later clusters' similarities, and leaves the others as    *)
(* they were; when no cluster reaches the threshold one new cluster is    *)
(* appended with the embedding as its only member and count 1.            *)
(***************************************************************************)
TrackerStep ==
    /\ nops' = nops + 1
    /\ NewLog.op = "identify"
    /\ NewLog.emb # Absent
    /\ NewLog.path \in {"new", "joined"}

Reaches(entry, embedding) ==
    cosine_sim(embedding, average_embeddings(entry.embeddings)) >= AUTO_ENROLL_THRESHOLD

JoinedAt(k) ==
    /\ Len(unknown_cache') = Len(unknown_cache)
    /\ unknown_cache'[k].embeddings = Append(unknown_cache[k].embeddings, NewLog.emb)
    /\ unknown_cache'[k].count = unknown_cache[k].count + 1
    /\ unknown_cache'[k].id = unknown_cache[k].id
    /\ NewLog.resp.speaker = unknown_cache[k].id
    /\ \A j \in DOMAIN unknown_cache : j # k => unknown_cache'[j] = unknown_cache[j]

CreatedLast ==
    /\ Len(unknown_cache') = Len(unknown_cache) + 1
    /\ unknown_cache'[Len(unknown_cache')].embeddings = <<NewLog.emb>>
    /\ unknown_cache'[Len(unknown_cache')].count = 1
    /\ unknown_cache'[Len(unknown_cache')].id = NewLog.resp.speaker
    /\ \A j \in DOMAIN unknown_cache : unknown_cache'[j] = unknown_cache[j]

C25_FirstMatchWins ==
    [][ TrackerStep =>
          /\ \A k \in DOMAIN unknown_cache :
                ( /\ Reaches(unknown_cache[k], NewLog.emb)
                  /\ \A j \in 1..(k - 1) : ~Reaches(unknown_cache[j], NewLog.emb) )
                    => JoinedAt(k)
          /\ (\A k \in DOMAIN unknown_cache : ~Reaches(unknown_cache[k], NewLog.emb))
                <=> CreatedLast ]_vars

C25_Witness ==
    /\ Len(hist) >= 1
    /\ IsIdentify(Last)
    /\ Last.path = "joined"
    /\ \E k, j \in DOMAIN unknown_cache :
          /\ k < j
          /\ Len(unknown_cache[k].embeddings) >= 2
          /\ unknown_cache[k].embeddings[Len(unknown_cache[k].embeddings)] = Last.emb
          /\ Last.resp.speaker = unknown_cache[k].id
          /\ unknown_cache[j].embeddings[Len(unknown_cache[j].embeddings)] # Last.emb
          /\ cosine_sim(Last.emb, average_embeddings(unknown_cache[j].embeddings))
                > cosine_sim(Last.emb,
                             average_embeddings(SubSeq(unknown_cache[k].embeddings, 1,
                                     Len(unknown_cache[k].embeddings) - 1)))

(***************************************************************************)
(* C26: when an identify joins a cluster that was promoted and whose id   *)
(* is a profile, that profile is afterwards the average of the cluster's  *)
(* last RefineWindow members, the new one included, in memory and on      *)
(* disk.                                                                   *)
(***************************************************************************)
C26_RefreshIsDurable ==
    [][ \A k \in DOMAIN unknown_cache :
          ( /\ JoinStep(k)
            /\ promotions[k] >= 1
            /\ Has(profiles, unknown_cache[k].id) ) =>
              /\ Has(profiles', unknown_cache[k].id)
              /\ Emb(profiles', unknown_cache[k].id)
                   = average_embeddings(LastN(unknown_cache'[k].embeddings, RefineWindow))
              /\ unknown_cache[k].id \in DOMAIN disk'
              /\ disk'[unknown_cache[k].id]
                   = average_embeddings(LastN(unknown_cache'[k].embeddings, RefineWindow)) ]_vars

(***************************************************************************)
(* C27: no cluster holds more than RefineWindow embeddings.               *)
(***************************************************************************)
C27_ClusterWindowBounded ==
    \A k \in DOMAIN unknown_cache :
        Len(unknown_cache[k].embeddings) <= RefineWindow

(***************************************************************************)
(* C28: under every configured OWNER_ENROLL_SAMPLES >= 1, while the owner *)
(* is not enrolled fewer samples are pending than the configured number.  *)
(***************************************************************************)
C28_EnrolledAtThreshold ==
    ~owner_enrolled => Len(owner_samples) < owner_enroll_samples

(***************************************************************************)
(* C29: profile names are unique and every stored embedding, in memory    *)
(* and on disk, has unit length (to within the rounding of the            *)
(* fixed-point vectors, one per cent).                                     *)
(***************************************************************************)
IsUnit(e) == 100 * Norm(e) >= 99 * SCALE /\ 100 * Norm(e) <= 101 * SCALE

C29_UniqueAndNormalized ==
    /\ \A i, j \in 1..Len(profiles) : profiles[i].name = profiles[j].name => i = j
    /\ \A i \in 1..Len(profiles) : IsUnit(profiles[i].emb)
    /\ \A n \in DOMAIN disk : IsUnit(disk[n])

C31_KnownAgreesWithStore ==
    \A i \in DOMAIN hist :
        IsIdentify(hist[i]) =>
            /\ ~hist[i].resp.known => ~Has(hist[i].after, hist[i].resp.speaker)
            /\ (hist[i].resp.known /\ ~hist[i].resp.autoEnrolling) =>
                  Has(hist[i].after, hist[i].resp.speaker)

(***************************************************************************)
(* C32: the ids of the entries of unknown_cache are pairwise distinct.    *)
(***************************************************************************)
C32_ClusterIdsDistinct ==
    \A i, j \in DOMAIN unknown_cache :
        unknown_cache[i].id = unknown_cache[j].id => i = j

(***************************************************************************)
(* C33: /profiles reports ownerEnrolled only when a profile with the      *)
(* owner name is among the names it lists.                                 *)
(***************************************************************************)
C33_OwnerFlagHasProfile ==
    ListProfiles.ownerEnrolled =>
        \E i \in 1..ListProfiles.count : ListProfiles.profiles[i] = OWNER_NAME

(***************************************************************************)
(* C34: every identify answered autoEnrolling reports a number of samples *)
(* between 1 and the number needed, equal to the samples accepted so far  *)
(* with the current one.                                                   *)
(***************************************************************************)
C34_SamplesReported ==
    \A i \in DOMAIN hist :
        (hist[i].op = "identify" /\ hist[i].resp.autoEnrolling) =>
            /\ hist[i].resp.samples >= 1
            /\ hist[i].resp.samples <= owner_enroll_samples
            /\ hist[i].resp.samples = Len(hist[i].samples_before) + 1

(***************************************************************************)
(* C35: unknown_counter equals the number of entries of unknown_cache,    *)
(* and each entry's count equals the number of embeddings it holds and is *)
(* at least 1.                                                             *)
(***************************************************************************)
C35_CountersAgree ==
    /\ unknown_counter = Len(unknown_cache)
    /\ \A k \in DOMAIN unknown_cache :
          /\ unknown_cache[k].count = Len(unknown_cache[k].embeddings)
          /\ unknown_cache[k].count >= 1

C35_Witness ==
    /\ unknown_counter = 2
    /\ Len(unknown_cache) = 2
    /\ \E k \in DOMAIN unknown_cache : unknown_cache[k].count >= 2
    /\ \E i \in DOMAIN hist : hist[i].op = "rename" /\ hist[i].path = "cluster"
    /\ \E i \in DOMAIN hist : hist[i].op = "identify" /\ hist[i].path = "joined"

====
